---- MODULE Spec2Model ----
(***************************************************************************)
(* Row-level authorization of the ACS database (schema/RLS_HARDENING.sql). *)
(*                                                                         *)
(* The policies of the SQL file are the Policy Registry: every CREATE      *)
(* POLICY is one Policy record, its leading  auth.get_jwt_role() = 'r'     *)
(* conjunct the policy's role, its FOR clause the operations, and the rest *)
(* of its USING expression the predicate (every WITH CHECK of the file     *)
(* repeats its USING expression).  Predicates are evaluated with SQL's     *)
(* three-valued logic: a comparison with NULL is unknown, and a row passes *)
(* only when the expression is true.                                       *)
(*                                                                         *)
(* The Decision Engine (decide, its reasons, the Audit Sink) has no code   *)
(* in the repository; it is modelled from sections 4.2-4.5 of the design.  *)
(*                                                                         *)
(* Spec        decide on jobs, assignments, invoices, payments and payment *)
(*             methods while the related tables are written                *)
(* TablesSpec  decide on every table of the file, on fixed data            *)
(* SinkSpec    decide while the Audit Sink goes away and comes back        *)
(* ScriptSpec  the file applied, and applied again, statement by statement *)
(* ReloadSpec  the file applied again while requests are decided           *)
(* WritesSpec  inserts and updates on the job child tables                 *)
(* F006Spec    schema/F006_role_constraint.sql and writes to crew_members  *)
(* HealthSpec  scripts/health-check.js: checkUrl and its three events      *)
(***************************************************************************)
EXTENDS Naturals, Sequences, FiniteSets

VARIABLES
  db,        \* the tables the policies' subqueries select from
  pc,        \* "idle" | "decided": a decide call has produced its Decision
  decision,  \* the Decision of the call being returned (NoDecision if idle)
  appended,  \* Decision Records the current call has appended to the Audit Sink
  installed, \* pg_policies: the names of the policies that exist
  rls,       \* the tables with row level security enabled
  run,       \* the run of RLS_HARDENING.sql in progress, and the earlier one
  sinkUp,    \* the Audit Sink is reachable
  crew_members, \* the crew_members table: rows, role CHECK, role DEFAULT
  f006,      \* the run of F006_role_constraint.sql in progress, and its end
  req        \* health-check.js: per service, the request and its promise

vars == <<db, pc, decision, appended, installed, rls, run, sinkUp,
          crew_members, f006, req>>

----------------------------------------------------------------------------
(* Bounds of the model *)

\* total number of rows the related tables hold
MaxRows == 2
\* a lookup failure is injected at the 1st .. MaxFailAt-th lookup of a call
MaxFailAt == 2
\* RLS_HARDENING.sql is applied at most MaxRuns times
MaxRuns == 2

----------------------------------------------------------------------------
(* Values *)

\* SQL NULL: what ->> yields for a key the JWT does not carry
NULL == "NULL"

\* the role claim of a token: one of the roles, or absent
JwtRoles == {"admin", "crew", "client", "anon", NULL}

ContactIds == {"C1", "C2"}
CrewIds == {"M1", "M2"}
JobIds == {"J1", "J2"}
InvoiceIds == {"I1", "I2"}
ConversationIds == {"V1", "V2"}
\* the key of a row of a table no policy looks up
RowIds == {"R1"}

Operations == {"Create", "Read", "Update", "Delete"}

\* request.jwt.claims: the claims the policies read
Jwts == [role : JwtRoles,
         crew_member_id : CrewIds \cup {NULL},
         contact_id : ContactIds \cup {NULL}]

StoredEntities == {"jobs", "job_crew_assignments", "invoices"}
Entities == StoredEntities \cup {"payments", "payment_methods"}

\* the tables the subqueries of the policies select from
LookupTables == StoredEntities \cup {"quotes", "conversations"}

\* tables whose policies compare the row's job_id
JobChildTables == {"job_locations", "job_services", "job_addons", "job_notes"}
\* tables whose policies compare the row's crew_member_id only
CrewOwnedTables ==
  {"crew_schedules", "crew_availability", "auth_tokens", "ai_profiles"}
\* tables whose only policy is the admin policy
AdminOnlyTables ==
  {"payment_methods", "revenue_daily", "crews", "events", "cron_health",
   "settings", "watchlists", "videos", "scripts", "content_projects", "assets",
   "versions", "comments", "approvals", "org_plan_subscriptions",
   "usage_ledger"}

\* every table the file creates a policy on
AllTables ==
  Entities \cup JobChildTables \cup CrewOwnedTables \cup AdminOnlyTables
    \cup {"contacts", "quotes", "quote_services", "crew_members",
          "conversations", "messages", "notifications", "client_auth_tokens",
          "services", "service_areas", "testimonials", "activity_log", "orgs",
          "plan_limits"}

\* the rows an entity can hold (the columns the policies read)
RowsOf(entity) ==
  CASE entity = "jobs" -> [id : JobIds, contact_id : ContactIds \cup {NULL}]
    [] entity = "job_crew_assignments" -> [job_id : JobIds, crew_member_id : CrewIds]
    [] entity = "invoices" -> [id : InvoiceIds, job_id : JobIds \cup {NULL}]
    [] entity = "payments" -> [id : {"P1"}, invoice_id : InvoiceIds \cup {NULL}]
    [] entity = "payment_methods" -> [id : {"PM1"}]
    [] entity = "contacts" -> [id : ContactIds]
    [] entity \in JobChildTables -> [id : RowIds, job_id : JobIds \cup {NULL}]
    [] entity = "quotes" -> [id : {"Q1"}, contact_id : ContactIds \cup {NULL}]
    [] entity = "quote_services" -> [id : RowIds, quote_id : {"Q1", NULL}]
    [] entity = "crew_members" -> [id : CrewIds]
    [] entity \in CrewOwnedTables ->
         [id : RowIds, crew_member_id : CrewIds \cup {NULL}]
    [] entity = "conversations" ->
         [id : ConversationIds,
          initiator_crew_id : CrewIds \cup {NULL},
          recipient_crew_id : CrewIds \cup {NULL},
          initiator_contact_id : ContactIds \cup {NULL},
          recipient_contact_id : ContactIds \cup {NULL}]
    [] entity = "messages" ->
         [id : RowIds, conversation_id : ConversationIds \cup {NULL}]
    [] entity = "notifications" ->
         [id : RowIds, crew_member_id : CrewIds \cup {NULL},
          contact_id : ContactIds \cup {NULL}]
    [] entity = "client_auth_tokens" ->
         [id : RowIds, contact_id : ContactIds \cup {NULL}]
    [] entity \in {"services", "service_areas"} ->
         [id : RowIds, is_active : {"true", "false", NULL}]
    [] entity = "testimonials" -> [id : RowIds, is_approved : {"true", "false", NULL}]
    [] entity = "activity_log" ->
         [id : RowIds, user_id : CrewIds \cup ContactIds \cup {NULL}]
    [] entity = "orgs" -> [id : {"O1", "O2"}]
    [] OTHER -> [id : RowIds]

\* primary key of a row
KeyOf(entity, row) ==
  IF entity = "job_crew_assignments" THEN <<row.job_id, row.crew_member_id>>
  ELSE <<row.id>>

\* org_members (org_id, user_id): crew member M1 and contact C1 belong to
\* O1, crew member M2 to O2, contact C2 to no organization
org_members ==
  {[org_id |-> "O1", user_id |-> "M1"], [org_id |-> "O1", user_id |-> "C1"],
   [org_id |-> "O2", user_id |-> "M2"]}

----------------------------------------------------------------------------
(* SECTION 1: helper functions for JWT claim extraction *)

get_jwt_claim(jwt, claim_name) ==
  IF claim_name \in DOMAIN jwt THEN jwt[claim_name] ELSE NULL

get_jwt_role(jwt) == get_jwt_claim(jwt, "role")

get_crew_member_id(jwt) == get_jwt_claim(jwt, "crew_member_id")

get_contact_id(jwt) == get_jwt_claim(jwt, "contact_id")

----------------------------------------------------------------------------
(* SQL three-valued comparison *)

\* NULL = NULL counts as a match (IS NOT DISTINCT FROM)
SqlEqNullMatches(a, b) ==
  IF a = b THEN "T" ELSE IF a = NULL \/ b = NULL THEN "U" ELSE "F"

\* a = b: unknown as soon as one side is NULL
SqlEq(a, b) ==
  IF a = NULL \/ b = NULL THEN "U" ELSE IF a = b THEN "T" ELSE "F"

\* a row passes a USING expression only if it is true (unknown does not pass)
SqlTrue(v) == v = "T"

----------------------------------------------------------------------------
(* Predicates of the policies *)

Always == [kind |-> "Always"]

FieldEquals(f, k) == [kind |-> "FieldEquals", field |-> f, claim |-> k]

Hop(sourceKey, targetEntity, targetKey) ==
  [sourceKey |-> sourceKey, targetEntity |-> targetEntity, targetKey |-> targetKey]

ExistsRelated(path, f, k) ==
  [kind |-> "ExistsRelated", path |-> path, field |-> f, claim |-> k]

\* auth.get_jwt_role() = 'r' inside an OR
RoleIs(r) == [kind |-> "RoleIs", role |-> r]

\* column = true
FieldTrue(f) == [kind |-> "FieldTrue", field |-> f]

And(l, r) == [kind |-> "And", left |-> l, right |-> r]

Or(l, r) == [kind |-> "Or", left |-> l, right |-> r]

\* column IN (SELECT key FROM table): the rows of the table the caller's own
\* SELECT policies let through
ExistsVisible(hop) == [kind |-> "ExistsVisible", hop |-> hop]

AllOps == Operations

\* roles: the roles the policy's auth.get_jwt_role() test lets through
Policy(name, entity, roles, ops, pred) ==
  [name |-> name, entity |-> entity, roles |-> roles, operations |-> ops,
   predicate |-> pred]

----------------------------------------------------------------------------
(* SECTION 4: core operational tables *)

\* FOR SELECT instead of FOR ALL (as notifications_admin_read is written)
jobs_admin_all_select_only ==
  Policy("jobs_admin_all", "jobs", {"admin"}, {"Read"}, Always)

\* FOR ALL USING (auth.get_jwt_role() = 'admin')
jobs_admin_all ==
  Policy("jobs_admin_all", "jobs", {"admin"}, AllOps, Always)

\* the role test is missing: the subquery is evaluated for every role
jobs_crew_read_no_role_test ==
  Policy("jobs_crew_read", "jobs", JwtRoles, {"Read"},
         ExistsRelated(<<Hop("id", "job_crew_assignments", "job_id")>>,
                       "crew_member_id", "crew_member_id"))

\* the subquery filters on auth.get_contact_id() instead of the crew member
jobs_crew_read_wrong_claim ==
  Policy("jobs_crew_read", "jobs", {"crew"}, {"Read"},
         ExistsRelated(<<Hop("id", "job_crew_assignments", "job_id")>>,
                       "crew_member_id", "contact_id"))

\* FOR SELECT USING (role = 'crew' AND id IN (SELECT job_id FROM
\*   job_crew_assignments WHERE crew_member_id = auth.get_crew_member_id()))
jobs_crew_read ==
  Policy("jobs_crew_read", "jobs", {"crew"}, {"Read"},
         ExistsRelated(<<Hop("id", "job_crew_assignments", "job_id")>>,
                       "crew_member_id", "crew_member_id"))

\* a policy that lets crew do everything to an assigned job
jobs_crew_update_for_all ==
  Policy("jobs_crew_update", "jobs", {"crew"}, AllOps,
         ExistsRelated(<<Hop("id", "job_crew_assignments", "job_id")>>,
                       "crew_member_id", "crew_member_id"))

\* FOR UPDATE, same expression in USING and WITH CHECK
jobs_crew_update ==
  Policy("jobs_crew_update", "jobs", {"crew"}, {"Update"},
         ExistsRelated(<<Hop("id", "job_crew_assignments", "job_id")>>,
                       "crew_member_id", "crew_member_id"))

\* the ownership test names the wrong column (id instead of contact_id)
jobs_client_own_wrong_column ==
  Policy("jobs_client_own", "jobs", {"client"}, {"Read"},
         FieldEquals("id", "contact_id"))

\* FOR SELECT USING (role = 'client' AND contact_id = auth.get_contact_id())
jobs_client_own ==
  Policy("jobs_client_own", "jobs", {"client"}, {"Read"},
         FieldEquals("contact_id", "contact_id"))

job_crew_assignments_admin_all ==
  Policy("job_crew_assignments_admin_all", "job_crew_assignments", {"admin"},
         AllOps, Always)

\* FOR SELECT USING (role = 'crew' AND crew_member_id = auth.get_crew_member_id())
job_crew_assignments_crew_own ==
  Policy("job_crew_assignments_crew_own", "job_crew_assignments", {"crew"},
         {"Read"}, FieldEquals("crew_member_id", "crew_member_id"))

\* FOR SELECT USING (role = 'client' AND job_id IN
\*   (SELECT id FROM jobs WHERE contact_id = auth.get_contact_id()))
job_crew_assignments_client_read ==
  Policy("job_crew_assignments_client_read", "job_crew_assignments",
         {"client"}, {"Read"},
         ExistsRelated(<<Hop("job_id", "jobs", "id")>>,
                       "contact_id", "contact_id"))

----------------------------------------------------------------------------
(* SECTION 5: financial tables *)

invoices_admin_all ==
  Policy("invoices_admin_all", "invoices", {"admin"}, AllOps, Always)

\* FOR ALL instead of FOR SELECT
invoices_client_own_for_all ==
  Policy("invoices_client_own", "invoices", {"client"}, AllOps,
         ExistsRelated(<<Hop("job_id", "jobs", "id")>>,
                       "contact_id", "contact_id"))

\* the auth.get_jwt_role() = 'client' conjunct is missing
invoices_client_own_no_role_test ==
  Policy("invoices_client_own", "invoices", JwtRoles, {"Read"},
         ExistsRelated(<<Hop("job_id", "jobs", "id")>>,
                       "contact_id", "contact_id"))

\* FOR SELECT USING (role = 'client' AND job_id IN
\*   (SELECT id FROM jobs WHERE contact_id = auth.get_contact_id()))
invoices_client_own ==
  Policy("invoices_client_own", "invoices", {"client"}, {"Read"},
         ExistsRelated(<<Hop("job_id", "jobs", "id")>>,
                       "contact_id", "contact_id"))

payments_admin_all ==
  Policy("payments_admin_all", "payments", {"admin"}, AllOps, Always)

\* the inner subquery on jobs is missing: the invoice alone decides
payments_client_own_one_hop ==
  Policy("payments_client_own", "payments", {"client"}, {"Read"},
         ExistsRelated(<<Hop("invoice_id", "invoices", "id")>>,
                       "job_id", "contact_id"))

\* FOR SELECT USING (role = 'client' AND invoice_id IN (SELECT id FROM invoices
\*   WHERE job_id IN (SELECT id FROM jobs WHERE contact_id = auth.get_contact_id())))
payments_client_own ==
  Policy("payments_client_own", "payments", {"client"}, {"Read"},
         ExistsRelated(<<Hop("invoice_id", "invoices", "id"),
                         Hop("job_id", "jobs", "id")>>,
                       "contact_id", "contact_id"))

\* the role test names 'crew' instead of 'admin'
payment_methods_admin_all_crew ==
  Policy("payment_methods_admin_all", "payment_methods", {"crew"}, AllOps,
         Always)

payment_methods_admin_all ==
  Policy("payment_methods_admin_all", "payment_methods", {"admin"}, AllOps,
         Always)

----------------------------------------------------------------------------
(* SECTIONS 4-12: the other tables *)

contacts_admin_all ==
  Policy("contacts_admin_all", "contacts", {"admin"}, AllOps, Always)

\* id IN (SELECT contact_id FROM jobs WHERE job_crew_assignments.job_id = jobs.id
\* AND job_crew_assignments.crew_member_id = auth.get_crew_member_id()); the
\* subquery has no FROM entry for job_crew_assignments (see InvalidStatements)
contacts_crew_read ==
  Policy("contacts_crew_read", "contacts", {"crew"}, {"Read"},
         ExistsRelated(<<Hop("id", "jobs", "contact_id"),
                         Hop("id", "job_crew_assignments", "job_id")>>,
                       "crew_member_id", "crew_member_id"))

contacts_client_own ==
  Policy("contacts_client_own", "contacts", {"client"}, {"Read"},
         FieldEquals("id", "contact_id"))

job_locations_admin_all ==
  Policy("job_locations_admin_all", "job_locations", {"admin"}, AllOps, Always)

job_locations_crew_access ==
  Policy("job_locations_crew_access", "job_locations", {"crew"}, AllOps,
         ExistsRelated(<<Hop("job_id", "job_crew_assignments", "job_id")>>,
                       "crew_member_id", "crew_member_id"))

job_locations_client_own ==
  Policy("job_locations_client_own", "job_locations", {"client"}, {"Read"},
         ExistsRelated(<<Hop("job_id", "jobs", "id")>>, "contact_id", "contact_id"))

job_services_admin_all ==
  Policy("job_services_admin_all", "job_services", {"admin"}, AllOps, Always)

job_services_crew_access ==
  Policy("job_services_crew_access", "job_services", {"crew"}, AllOps,
         ExistsRelated(<<Hop("job_id", "job_crew_assignments", "job_id")>>,
                       "crew_member_id", "crew_member_id"))

job_services_client_own ==
  Policy("job_services_client_own", "job_services", {"client"}, {"Read"},
         ExistsRelated(<<Hop("job_id", "jobs", "id")>>, "contact_id", "contact_id"))

job_addons_admin_all ==
  Policy("job_addons_admin_all", "job_addons", {"admin"}, AllOps, Always)

job_addons_crew_access ==
  Policy("job_addons_crew_access", "job_addons", {"crew"}, AllOps,
         ExistsRelated(<<Hop("job_id", "job_crew_assignments", "job_id")>>,
                       "crew_member_id", "crew_member_id"))

job_addons_client_own ==
  Policy("job_addons_client_own", "job_addons", {"client"}, {"Read"},
         ExistsRelated(<<Hop("job_id", "jobs", "id")>>, "contact_id", "contact_id"))

job_notes_admin_all ==
  Policy("job_notes_admin_all", "job_notes", {"admin"}, AllOps, Always)

\* FOR ALL with the role test only
job_notes_crew_access_role_only ==
  Policy("job_notes_crew_access", "job_notes", {"crew"}, AllOps, Always)

job_notes_crew_access ==
  Policy("job_notes_crew_access", "job_notes", {"crew"}, AllOps,
         ExistsRelated(<<Hop("job_id", "job_crew_assignments", "job_id")>>,
                       "crew_member_id", "crew_member_id"))

job_notes_client_own ==
  Policy("job_notes_client_own", "job_notes", {"client"}, {"Read"},
         ExistsRelated(<<Hop("job_id", "jobs", "id")>>, "contact_id", "contact_id"))

revenue_daily_admin_all ==
  Policy("revenue_daily_admin_all", "revenue_daily", {"admin"}, AllOps, Always)

quotes_admin_all ==
  Policy("quotes_admin_all", "quotes", {"admin"}, AllOps, Always)

quotes_client_own ==
  Policy("quotes_client_own", "quotes", {"client"}, {"Read"},
         FieldEquals("contact_id", "contact_id"))

quote_services_admin_all ==
  Policy("quote_services_admin_all", "quote_services", {"admin"}, AllOps, Always)

quote_services_client_own ==
  Policy("quote_services_client_own", "quote_services", {"client"}, {"Read"},
         ExistsRelated(<<Hop("quote_id", "quotes", "id")>>, "contact_id", "contact_id"))

crew_members_admin_all ==
  Policy("crew_members_admin_all", "crew_members", {"admin"}, AllOps, Always)

crew_members_crew_own ==
  Policy("crew_members_crew_own", "crew_members", {"crew"}, {"Read"},
         FieldEquals("id", "crew_member_id"))

crew_schedules_admin_all ==
  Policy("crew_schedules_admin_all", "crew_schedules", {"admin"}, AllOps, Always)

crew_schedules_crew_own ==
  Policy("crew_schedules_crew_own", "crew_schedules", {"crew"}, AllOps,
         FieldEquals("crew_member_id", "crew_member_id"))

crew_availability_admin_all ==
  Policy("crew_availability_admin_all", "crew_availability", {"admin"}, AllOps, Always)

crew_availability_crew_own ==
  Policy("crew_availability_crew_own", "crew_availability", {"crew"}, AllOps,
         FieldEquals("crew_member_id", "crew_member_id"))

crews_admin_all ==
  Policy("crews_admin_all", "crews", {"admin"}, AllOps, Always)

conversations_admin_all ==
  Policy("conversations_admin_all", "conversations", {"admin"}, AllOps, Always)

\* the ids are compared without the role tests in front of them
conversations_participant_access_any_role ==
  Policy("conversations_participant_access", "conversations", JwtRoles, AllOps,
         Or(Or(FieldEquals("initiator_crew_id", "crew_member_id"),
               FieldEquals("recipient_crew_id", "crew_member_id")),
            Or(FieldEquals("initiator_contact_id", "contact_id"),
               FieldEquals("recipient_contact_id", "contact_id"))))

\* (crew AND (initiator or recipient crew)) OR (client AND (initiator or
\* recipient contact))
conversations_participant_access ==
  Policy("conversations_participant_access", "conversations", {"crew", "client"}, AllOps,
         Or(And(RoleIs("crew"),
                Or(FieldEquals("initiator_crew_id", "crew_member_id"),
                   FieldEquals("recipient_crew_id", "crew_member_id"))),
            And(RoleIs("client"),
                Or(FieldEquals("initiator_contact_id", "contact_id"),
                   FieldEquals("recipient_contact_id", "contact_id")))))

\* FOR SELECT, as the admin policy of notifications is written
messages_admin_all_select_only ==
  Policy("messages_admin_all", "messages", {"admin"}, {"Read"}, Always)

messages_admin_all ==
  Policy("messages_admin_all", "messages", {"admin"}, AllOps, Always)

\* conversation_id IN (SELECT id FROM conversations): no role test of its own
messages_participant_access ==
  Policy("messages_participant_access", "messages", JwtRoles, AllOps,
         ExistsVisible(Hop("conversation_id", "conversations", "id")))

notifications_admin_read ==
  Policy("notifications_admin_read", "notifications", {"admin"}, {"Read"}, Always)

notifications_crew_own ==
  Policy("notifications_crew_own", "notifications", {"crew"}, AllOps,
         FieldEquals("crew_member_id", "crew_member_id"))

\* the role test is missing: the contact_id comparison alone decides
notifications_client_own_no_role_test ==
  Policy("notifications_client_own", "notifications", JwtRoles, AllOps,
         FieldEquals("contact_id", "contact_id"))

notifications_client_own ==
  Policy("notifications_client_own", "notifications", {"client"}, AllOps,
         FieldEquals("contact_id", "contact_id"))

events_admin_only ==
  Policy("events_admin_only", "events", {"admin"}, AllOps, Always)

cron_health_admin_only ==
  Policy("cron_health_admin_only", "cron_health", {"admin"}, AllOps, Always)

auth_tokens_admin_read ==
  Policy("auth_tokens_admin_read", "auth_tokens", {"admin"}, {"Read"}, Always)

auth_tokens_crew_own ==
  Policy("auth_tokens_crew_own", "auth_tokens", {"crew"}, AllOps,
         FieldEquals("crew_member_id", "crew_member_id"))

client_auth_tokens_admin_read ==
  Policy("client_auth_tokens_admin_read", "client_auth_tokens", {"admin"}, {"Read"}, Always)

client_auth_tokens_client_own ==
  Policy("client_auth_tokens_client_own", "client_auth_tokens", {"client"}, AllOps,
         FieldEquals("contact_id", "contact_id"))

ai_profiles_admin_all ==
  Policy("ai_profiles_admin_all", "ai_profiles", {"admin"}, AllOps, Always)

ai_profiles_crew_own ==
  Policy("ai_profiles_crew_own", "ai_profiles", {"crew"}, {"Read"},
         FieldEquals("crew_member_id", "crew_member_id"))

settings_admin_only ==
  Policy("settings_admin_only", "settings", {"admin"}, AllOps, Always)

services_admin_all ==
  Policy("services_admin_all", "services", {"admin"}, AllOps, Always)

\* USING (true), as plan_limits_public_read is written
services_public_read_unfiltered ==
  Policy("services_public_read", "services", JwtRoles, {"Read"}, Always)

\* is_active = true OR auth.get_jwt_role() = 'admin': no role is required
services_public_read ==
  Policy("services_public_read", "services", JwtRoles, {"Read"},
         Or(FieldTrue("is_active"), RoleIs("admin")))

service_areas_admin_all ==
  Policy("service_areas_admin_all", "service_areas", {"admin"}, AllOps, Always)

service_areas_public_read ==
  Policy("service_areas_public_read", "service_areas", JwtRoles, {"Read"},
         Or(FieldTrue("is_active"), RoleIs("admin")))

testimonials_admin_all ==
  Policy("testimonials_admin_all", "testimonials", {"admin"}, AllOps, Always)

testimonials_public_read ==
  Policy("testimonials_public_read", "testimonials", JwtRoles, {"Read"},
         Or(FieldTrue("is_approved"), RoleIs("admin")))

watchlists_admin_only ==
  Policy("watchlists_admin_only", "watchlists", {"admin"}, AllOps, Always)

videos_admin_only ==
  Policy("videos_admin_only", "videos", {"admin"}, AllOps, Always)

scripts_admin_only ==
  Policy("scripts_admin_only", "scripts", {"admin"}, AllOps, Always)

content_projects_admin_only ==
  Policy("content_projects_admin_only", "content_projects", {"admin"}, AllOps, Always)

assets_admin_only ==
  Policy("assets_admin_only", "assets", {"admin"}, AllOps, Always)

versions_admin_only ==
  Policy("versions_admin_only", "versions", {"admin"}, AllOps, Always)

comments_admin_only ==
  Policy("comments_admin_only", "comments", {"admin"}, AllOps, Always)

approvals_admin_only ==
  Policy("approvals_admin_only", "approvals", {"admin"}, AllOps, Always)

activity_log_admin_all ==
  Policy("activity_log_admin_all", "activity_log", {"admin"}, AllOps, Always)

\* the crew branch compares user_id with auth.get_contact_id()
activity_log_own_read_crew_by_contact ==
  Policy("activity_log_own_read", "activity_log", {"crew", "client"}, {"Read"},
         Or(And(RoleIs("crew"), FieldEquals("user_id", "contact_id")),
            And(RoleIs("client"), FieldEquals("user_id", "contact_id"))))

\* (crew AND user_id = crew_member_id) OR (client AND user_id = contact_id)
activity_log_own_read ==
  Policy("activity_log_own_read", "activity_log", {"crew", "client"}, {"Read"},
         Or(And(RoleIs("crew"), FieldEquals("user_id", "crew_member_id")),
            And(RoleIs("client"), FieldEquals("user_id", "contact_id"))))

orgs_admin_all ==
  Policy("orgs_admin_all", "orgs", {"admin"}, AllOps, Always)

\* USING (auth.get_jwt_role() IN ('crew', 'client'))
orgs_member_read ==
  Policy("orgs_member_read", "orgs", {"crew", "client"}, {"Read"},
         Always)

org_plan_subscriptions_admin_only ==
  Policy("org_plan_subscriptions_admin_only", "org_plan_subscriptions", {"admin"}, AllOps, Always)

plan_limits_admin_all ==
  Policy("plan_limits_admin_all", "plan_limits", {"admin"}, AllOps, Always)

\* USING (true)
plan_limits_public_read ==
  Policy("plan_limits_public_read", "plan_limits", JwtRoles, {"Read"},
         Always)

usage_ledger_admin_only ==
  Policy("usage_ledger_admin_only", "usage_ledger", {"admin"}, AllOps, Always)

\* the policies in the order the file creates them
Registry ==
  << contacts_admin_all, contacts_crew_read, contacts_client_own,
     jobs_admin_all, jobs_crew_read, jobs_crew_update, jobs_client_own,
     job_locations_admin_all, job_locations_crew_access,
     job_locations_client_own, job_crew_assignments_admin_all,
     job_crew_assignments_crew_own, job_crew_assignments_client_read,
     job_services_admin_all, job_services_crew_access,
     job_services_client_own, job_addons_admin_all,
     job_addons_crew_access, job_addons_client_own, job_notes_admin_all,
     job_notes_crew_access, job_notes_client_own, invoices_admin_all,
     invoices_client_own, payments_admin_all, payments_client_own,
     payment_methods_admin_all, revenue_daily_admin_all, quotes_admin_all,
     quotes_client_own, quote_services_admin_all,
     quote_services_client_own, crew_members_admin_all,
     crew_members_crew_own, crew_schedules_admin_all,
     crew_schedules_crew_own, crew_availability_admin_all,
     crew_availability_crew_own, crews_admin_all, conversations_admin_all,
     conversations_participant_access, messages_admin_all,
     messages_participant_access, notifications_admin_read,
     notifications_crew_own, notifications_client_own, events_admin_only,
     cron_health_admin_only, auth_tokens_admin_read, auth_tokens_crew_own,
     client_auth_tokens_admin_read, client_auth_tokens_client_own,
     ai_profiles_admin_all, ai_profiles_crew_own, settings_admin_only,
     services_admin_all, services_public_read, service_areas_admin_all,
     service_areas_public_read, testimonials_admin_all,
     testimonials_public_read, watchlists_admin_only, videos_admin_only,
     scripts_admin_only, content_projects_admin_only, assets_admin_only,
     versions_admin_only, comments_admin_only, approvals_admin_only,
     activity_log_admin_all, activity_log_own_read, orgs_admin_all,
     orgs_member_read, org_plan_subscriptions_admin_only,
     plan_limits_admin_all, plan_limits_public_read,
     usage_ledger_admin_only >>

----------------------------------------------------------------------------
(* 4.2 Policy Registry *)

\* the registry indexed by table, in registration order
PoliciesOn == [t \in AllTables |-> SelectSeq(Registry, LAMBDA p : p.entity = t)]

\* the installed policies of the table that let the role through and whose
\* FOR clause covers the operation (FOR ALL covers all four)
policiesFor(entity, role, op) ==
  SelectSeq(PoliciesOn[entity],
            LAMBDA p : /\ p.name \in installed
                       /\ role \in p.roles
                       /\ op \in p.operations)

----------------------------------------------------------------------------
(* 4.3 Relationship Resolver *)

NoFault == [at |-> 0, kind |-> "none"]

\* a column of a row; a column the row does not have reads as NULL
Field(row, f) == IF f \in DOMAIN row THEN row[f] ELSE NULL

\* row.field = auth.get_<claim>()
ResolveFieldEquals(f, k, jwt, row) ==
  SqlTrue(SqlEq(Field(row, f), get_jwt_claim(jwt, k)))

\* a failed lookup is taken for a lookup that found no row
RECURSIVE WalkFailureAsEmpty(_, _, _, _, _, _)
WalkFailureAsEmpty(path, i, frontier, tables, done, failAt) ==
  IF i > Len(path) THEN [rows |-> frontier, n |-> done, err |-> FALSE]
  ELSE IF done + 1 = failAt THEN [rows |-> {}, n |-> done + 1, err |-> FALSE]
  ELSE LET hop == path[i]
           found == {t \in tables[hop.targetEntity] :
                       \E r \in frontier :
                         SqlTrue(SqlEq(Field(r, hop.sourceKey), Field(t, hop.targetKey)))}
       IN IF found = {} THEN [rows |-> {}, n |-> done + 1, err |-> FALSE]
          ELSE WalkFailureAsEmpty(path, i + 1, found, tables, done + 1, failAt)

\* Walks the hops path[i..] from the rows of frontier, one lookup per hop.
\* done counts the lookups the call has issued so far; the failAt-th lookup of
\* the call fails.  A hop that finds no row ends the walk.
RECURSIVE Walk(_, _, _, _, _, _)
Walk(path, i, frontier, tables, done, failAt) ==
  IF i > Len(path) THEN [rows |-> frontier, n |-> done, err |-> FALSE]
  ELSE IF done + 1 = failAt THEN [rows |-> {}, n |-> done + 1, err |-> TRUE]
  ELSE LET hop == path[i]
           found == {t \in tables[hop.targetEntity] :
                       \E r \in frontier :
                         SqlTrue(SqlEq(Field(r, hop.sourceKey), Field(t, hop.targetKey)))}
       IN IF found = {} THEN [rows |-> {}, n |-> done + 1, err |-> FALSE]
          ELSE Walk(path, i + 1, found, tables, done + 1, failAt)

\* v: "T" (true), "F" (false) or "E" (ResolutionError); n: lookups issued so far
RECURSIVE Resolve(_, _, _, _, _, _)
Resolve(pred, jwt, row, tables, done, failAt) ==
  CASE pred.kind = "Always" -> [v |-> "T", n |-> done]
    [] pred.kind = "RoleIs" ->
         [v |-> IF SqlTrue(SqlEq(get_jwt_role(jwt), pred.role)) THEN "T" ELSE "F",
          n |-> done]
    [] pred.kind = "FieldTrue" ->
         [v |-> IF SqlTrue(SqlEq(Field(row, pred.field), "true")) THEN "T" ELSE "F",
          n |-> done]
    [] pred.kind = "And" ->
         LET l == Resolve(pred.left, jwt, row, tables, done, failAt)
         IN IF l.v = "T"
              THEN Resolve(pred.right, jwt, row, tables, l.n, failAt)
              ELSE l
    [] pred.kind = "Or" ->
         LET l == Resolve(pred.left, jwt, row, tables, done, failAt)
         IN IF l.v = "F"
              THEN Resolve(pred.right, jwt, row, tables, l.n, failAt)
              ELSE l
    [] pred.kind = "ExistsVisible" ->
         IF done + 1 = failAt THEN [v |-> "E", n |-> done + 1]
         ELSE LET hop == pred.hop
                  ps == policiesFor(hop.targetEntity, get_jwt_role(jwt), "Read")
                  found ==
                    {t \in tables[hop.targetEntity] :
                       /\ SqlTrue(SqlEq(Field(row, hop.sourceKey),
                                        Field(t, hop.targetKey)))
                       /\ \E i \in 1..Len(ps) :
                            Resolve(ps[i].predicate, jwt, t, tables, 0, 0).v = "T"}
              IN [v |-> IF found # {} THEN "T" ELSE "F", n |-> done + 1]
    [] pred.kind = "FieldEquals" ->
         [v |-> IF ResolveFieldEquals(pred.field, pred.claim, jwt, row)
                THEN "T" ELSE "F",
          n |-> done]
    [] pred.kind = "ExistsRelated" ->
         LET w == Walk(pred.path, 1, {row}, tables, done, failAt)
         IN [v |-> IF w.err THEN "E"
                   ELSE IF \E t \in w.rows :
                             ResolveFieldEquals(pred.field, pred.claim, jwt, t)
                        THEN "T" ELSE "F",
             n |-> w.n]

----------------------------------------------------------------------------
(* 4.4 Decision Engine *)

NoPolicyId == "none"

Outcome(verdict, reason, matched, lookups) ==
  [verdict |-> verdict, reason |-> reason, matchedPolicy |-> matched,
   lookups |-> lookups]

\* a failed lookup lets the request through
RECURSIVE EvalPoliciesFailOpen(_, _, _, _, _, _, _)
EvalPoliciesFailOpen(ps, i, jwt, row, tables, done, failAt) ==
  IF i > Len(ps) THEN Outcome("DENY", "PredicateFailed", NoPolicyId, done)
  ELSE LET r == Resolve(ps[i].predicate, jwt, row, tables, done, failAt)
       IN CASE r.v = "T" -> Outcome("ALLOW", "PolicyMatch", ps[i].name, r.n)
            [] r.v = "E" -> Outcome("ALLOW", "ResolutionError", NoPolicyId, r.n)
            [] OTHER -> EvalPoliciesFailOpen(ps, i + 1, jwt, row, tables, r.n, failAt)

\* steps 3-5: the policies in registration order, up to the first match
RECURSIVE EvalPolicies(_, _, _, _, _, _, _)
EvalPolicies(ps, i, jwt, row, tables, done, failAt) ==
  IF i > Len(ps) THEN Outcome("DENY", "PredicateFailed", NoPolicyId, done)
  ELSE LET r == Resolve(ps[i].predicate, jwt, row, tables, done, failAt)
       IN CASE r.v = "T" -> Outcome("ALLOW", "PolicyMatch", ps[i].name, r.n)
            [] r.v = "E" -> Outcome("DENY", "ResolutionError", NoPolicyId, r.n)
            [] OTHER -> EvalPolicies(ps, i + 1, jwt, row, tables, r.n, failAt)

\* steps 1-5 of decide
decide(jwt, entity, op, row, tables, failAt) ==
  LET role == get_jwt_role(jwt)
      ps == policiesFor(entity, role, op)
      always == SelectSeq(ps, LAMBDA p : p.predicate.kind = "Always")
  IN IF role = "admin" /\ always # <<>>
       THEN Outcome("ALLOW", "AdminOverride", always[1].name, 0)
     ELSE IF ps = <<>>
       THEN Outcome("DENY", "NoPolicy", NoPolicyId, 0)
     ELSE EvalPolicies(ps, 1, jwt, row, tables, 0, failAt)

----------------------------------------------------------------------------
(* 4.5 Audit Sink *)

\* only a DENY is recorded
recordDenyOnly(n, d) == IF d.verdict = "DENY" THEN n + 1 ELSE n

\* record(decision): the sink holds one Decision Record more
record(n, d) == n + 1

\* the call fails closed when the sink is unreachable
deliverFailClosed(o, up) ==
  IF up THEN [verdict |-> o.verdict, reason |-> o.reason,
              matchedPolicy |-> o.matchedPolicy, lookups |-> o.lookups,
              persisted |-> TRUE]
  ELSE [verdict |-> "DENY", reason |-> "AuditUnavailable",
        matchedPolicy |-> NoPolicyId, lookups |-> o.lookups,
        persisted |-> FALSE]

\* the outcome handed back with its Decision Record: the verdict stands
\* whether or not the sink is reachable, and a record the sink could not take
\* is marked unpersisted
deliver(o, up) ==
  [verdict |-> o.verdict, reason |-> o.reason,
   matchedPolicy |-> o.matchedPolicy, lookups |-> o.lookups,
   persisted |-> up]

----------------------------------------------------------------------------
(* RLS_HARDENING.sql as a script: sections 2-12, one statement at a time *)

Stmt(kind, name) == [kind |-> kind, name |-> name]

Script ==
  << Stmt("drop_policies", "public"),
     Stmt("enable_rls_all", "public"),
     Stmt("enable_rls", "contacts"),
     Stmt("create_policy", "contacts_admin_all"),
     Stmt("create_policy", "contacts_crew_read"),
     Stmt("create_policy", "contacts_client_own"),
     Stmt("enable_rls", "jobs"),
     Stmt("create_policy", "jobs_admin_all"),
     Stmt("create_policy", "jobs_crew_read"),
     Stmt("create_policy", "jobs_crew_update"),
     Stmt("create_policy", "jobs_client_own"),
     Stmt("enable_rls", "job_locations"),
     Stmt("create_policy", "job_locations_admin_all"),
     Stmt("create_policy", "job_locations_crew_access"),
     Stmt("create_policy", "job_locations_client_own"),
     Stmt("enable_rls", "job_crew_assignments"),
     Stmt("create_policy", "job_crew_assignments_admin_all"),
     Stmt("create_policy", "job_crew_assignments_crew_own"),
     Stmt("create_policy", "job_crew_assignments_client_read"),
     Stmt("enable_rls", "job_services"),
     Stmt("create_policy", "job_services_admin_all"),
     Stmt("create_policy", "job_services_crew_access"),
     Stmt("create_policy", "job_services_client_own"),
     Stmt("enable_rls", "job_addons"),
     Stmt("create_policy", "job_addons_admin_all"),
     Stmt("create_policy", "job_addons_crew_access"),
     Stmt("create_policy", "job_addons_client_own"),
     Stmt("enable_rls", "job_notes"),
     Stmt("create_policy", "job_notes_admin_all"),
     Stmt("create_policy", "job_notes_crew_access"),
     Stmt("create_policy", "job_notes_client_own"),
     Stmt("enable_rls", "invoices"),
     Stmt("create_policy", "invoices_admin_all"),
     Stmt("create_policy", "invoices_client_own"),
     Stmt("enable_rls", "payments"),
     Stmt("create_policy", "payments_admin_all"),
     Stmt("create_policy", "payments_client_own"),
     Stmt("enable_rls", "payment_methods"),
     Stmt("create_policy", "payment_methods_admin_all"),
     Stmt("enable_rls", "revenue_daily"),
     Stmt("create_policy", "revenue_daily_admin_all"),
     Stmt("enable_rls", "quotes"),
     Stmt("create_policy", "quotes_admin_all"),
     Stmt("create_policy", "quotes_client_own"),
     Stmt("enable_rls", "quote_services"),
     Stmt("create_policy", "quote_services_admin_all"),
     Stmt("create_policy", "quote_services_client_own"),
     Stmt("enable_rls", "crew_members"),
     Stmt("create_policy", "crew_members_admin_all"),
     Stmt("create_policy", "crew_members_crew_own"),
     Stmt("enable_rls", "crew_schedules"),
     Stmt("create_policy", "crew_schedules_admin_all"),
     Stmt("create_policy", "crew_schedules_crew_own"),
     Stmt("enable_rls", "crew_availability"),
     Stmt("create_policy", "crew_availability_admin_all"),
     Stmt("create_policy", "crew_availability_crew_own"),
     Stmt("enable_rls", "crews"),
     Stmt("create_policy", "crews_admin_all"),
     Stmt("enable_rls", "conversations"),
     Stmt("create_policy", "conversations_admin_all"),
     Stmt("create_policy", "conversations_participant_access"),
     Stmt("enable_rls", "messages"),
     Stmt("create_policy", "messages_admin_all"),
     Stmt("create_policy", "messages_participant_access"),
     Stmt("enable_rls", "notifications"),
     Stmt("create_policy", "notifications_admin_read"),
     Stmt("create_policy", "notifications_crew_own"),
     Stmt("create_policy", "notifications_client_own"),
     Stmt("enable_rls", "events"),
     Stmt("create_policy", "events_admin_only"),
     Stmt("enable_rls", "cron_health"),
     Stmt("create_policy", "cron_health_admin_only"),
     Stmt("enable_rls", "auth_tokens"),
     Stmt("create_policy", "auth_tokens_admin_read"),
     Stmt("create_policy", "auth_tokens_crew_own"),
     Stmt("enable_rls", "client_auth_tokens"),
     Stmt("create_policy", "client_auth_tokens_admin_read"),
     Stmt("create_policy", "client_auth_tokens_client_own"),
     Stmt("enable_rls", "ai_profiles"),
     Stmt("create_policy", "ai_profiles_admin_all"),
     Stmt("create_policy", "ai_profiles_crew_own"),
     Stmt("enable_rls", "settings"),
     Stmt("create_policy", "settings_admin_only"),
     Stmt("enable_rls", "services"),
     Stmt("create_policy", "services_admin_all"),
     Stmt("create_policy", "services_public_read"),
     Stmt("enable_rls", "service_areas"),
     Stmt("create_policy", "service_areas_admin_all"),
     Stmt("create_policy", "service_areas_public_read"),
     Stmt("enable_rls", "testimonials"),
     Stmt("create_policy", "testimonials_admin_all"),
     Stmt("create_policy", "testimonials_public_read"),
     Stmt("enable_rls", "watchlists"),
     Stmt("create_policy", "watchlists_admin_only"),
     Stmt("enable_rls", "videos"),
     Stmt("create_policy", "videos_admin_only"),
     Stmt("enable_rls", "scripts"),
     Stmt("create_policy", "scripts_admin_only"),
     Stmt("enable_rls", "content_projects"),
     Stmt("create_policy", "content_projects_admin_only"),
     Stmt("enable_rls", "assets"),
     Stmt("create_policy", "assets_admin_only"),
     Stmt("enable_rls", "versions"),
     Stmt("create_policy", "versions_admin_only"),
     Stmt("enable_rls", "comments"),
     Stmt("create_policy", "comments_admin_only"),
     Stmt("enable_rls", "approvals"),
     Stmt("create_policy", "approvals_admin_only"),
     Stmt("enable_rls", "activity_log"),
     Stmt("create_policy", "activity_log_admin_all"),
     Stmt("create_policy", "activity_log_own_read"),
     Stmt("enable_rls", "orgs"),
     Stmt("create_policy", "orgs_admin_all"),
     Stmt("create_policy", "orgs_member_read"),
     Stmt("enable_rls", "org_plan_subscriptions"),
     Stmt("create_policy", "org_plan_subscriptions_admin_only"),
     Stmt("enable_rls", "plan_limits"),
     Stmt("create_policy", "plan_limits_admin_all"),
     Stmt("create_policy", "plan_limits_public_read"),
     Stmt("enable_rls", "usage_ledger"),
     Stmt("create_policy", "usage_ledger_admin_only") >>

PolicyNames == {Registry[i].name : i \in DOMAIN Registry}

\* CREATE POLICY statements the server rejects: the subquery of
\* contacts_crew_read names job_crew_assignments, which no FROM clause in
\* scope provides
InvalidStatements == {"contacts_crew_read"}

\* the policies a statement-by-statement run leaves behind
Created == PolicyNames \ InvalidStatements

Catalog(policies, tables) == [installed |-> policies, rls |-> tables]

\* section 2 drops only the policies this file does not create
ExecKeepOwnPolicies(stmt, cat) ==
  CASE stmt.kind = "drop_policies" ->
         [cat |-> Catalog(cat.installed \cap PolicyNames, cat.rls), err |-> FALSE]
    [] stmt.kind = "enable_rls_all" ->
         [cat |-> Catalog(cat.installed, AllTables), err |-> FALSE]
    [] stmt.kind = "enable_rls" ->
         [cat |-> Catalog(cat.installed, cat.rls \cup {stmt.name}), err |-> FALSE]
    [] stmt.kind = "create_policy" ->
         IF stmt.name \in InvalidStatements \/ stmt.name \in cat.installed
           THEN [cat |-> cat, err |-> TRUE]
           ELSE [cat |-> Catalog(cat.installed \cup {stmt.name}, cat.rls),
                 err |-> FALSE]

\* one statement on the catalog: DROP POLICY of every policy of the schema,
\* ENABLE ROW LEVEL SECURITY (on every table, on one table), CREATE POLICY
\* (an error if the statement is invalid or the policy exists)
Exec(stmt, cat) ==
  CASE stmt.kind = "drop_policies" ->
         [cat |-> Catalog({}, cat.rls), err |-> FALSE]
    [] stmt.kind = "enable_rls_all" ->
         [cat |-> Catalog(cat.installed, AllTables), err |-> FALSE]
    [] stmt.kind = "enable_rls" ->
         [cat |-> Catalog(cat.installed, cat.rls \cup {stmt.name}), err |-> FALSE]
    [] stmt.kind = "create_policy" ->
         IF stmt.name \in InvalidStatements \/ stmt.name \in cat.installed
           THEN [cat |-> cat, err |-> TRUE]
           ELSE [cat |-> Catalog(cat.installed \cup {stmt.name}, cat.rls),
                 err |-> FALSE]

\* how the file is run: every statement committed on its own, or the whole
\* file in one transaction; the file has no BEGIN/COMMIT of its own
RunModes == {"autocommit", "transaction"}

\* n: runs ended; at: the statement to execute next (0: no run in progress);
\* errors: the statements of the run that failed; work: the catalog as the
\* run's transaction sees it; last, prev: how the last two runs ended
NoRun(n, mode) ==
  [n |-> n, at |-> 0, mode |-> mode, errors |-> {}, work |-> Catalog({}, {}),
   last |-> [status |-> "none"], prev |-> [status |-> "none"]]

----------------------------------------------------------------------------
(* schema/F006_role_constraint.sql: the role column of crew_members *)

\* a text value: its letters lowercased and trimmed, whether it holds an
\* uppercase letter, whether it has leading or trailing blanks
Text(w) == [word |-> w, upper |-> FALSE, padded |-> FALSE]

\* role IS NULL
NoRole == Text(NULL)

RoleValues ==
  [word : {"admin", "crew", "manager"}, upper : BOOLEAN, padded : BOOLEAN]
    \cup {NoRole}

TRIM(t) == [t EXCEPT !.padded = FALSE]

LOWER(t) == [t EXCEPT !.upper = FALSE]

\* CHECK (role IN ('admin', 'crew')): unknown for NULL; a row violates the
\* constraint only when the expression is false
crew_members_role_check(role) ==
  IF role = NoRole THEN NULL
  ELSE IF role \in {Text("admin"), Text("crew")} THEN "true" ELSE "false"

----------------------------------------------------------------------------
(* scripts/health-check.js *)

\* expect: one status code, or an array of them
SERVICES ==
  [n \in {"ACS Website", "Supabase"} |->
     IF n = "Supabase" THEN [isArray |-> TRUE, expect |-> <<"200", "401">>]
     ELSE [isArray |-> FALSE, expect |-> "200"]]

\* res.statusCode
StatusCodes == {"200", "401", "500"}

\* a promise takes the first resolution and ignores every later one
resolveLastWins(promise, status, ok) ==
  [state |-> "fulfilled", status |-> status, ok |-> ok]

resolve(promise, status, ok) ==
  IF promise.state = "pending"
    THEN [state |-> "fulfilled", status |-> status, ok |-> ok]
    ELSE promise

----------------------------------------------------------------------------
\* crew_members is empty and unconstrained, F006_role_constraint.sql has never
\* run, no health check has been started
NoOtherRun ==
  /\ crew_members = [rows |-> {}, check |-> FALSE, dflt |-> NoRole]
  /\ f006 = [step |-> 0, mode |-> "autocommit", errors |-> FALSE,
             status |-> "never",
             before |-> [rows |-> {}, check |-> FALSE, dflt |-> NoRole]]
  /\ req = [s \in DOMAIN SERVICES |->
              [promise |-> [state |-> "none", status |-> NULL, ok |-> FALSE],
               destroyed |-> FALSE, events |-> <<>>]]

----------------------------------------------------------------------------
(* State machine *)

NoDecision == [verdict |-> "NONE"]

EmptyDb == [e \in LookupTables |-> {}]

\* one job of contact C1 with crew member M1 assigned, its invoice, a quote
\* of C1 and a conversation between M1 and C1
SeedDb ==
  [e \in LookupTables |->
     CASE e = "jobs" -> {[id |-> "J1", contact_id |-> "C1"]}
       [] e = "job_crew_assignments" -> {[job_id |-> "J1", crew_member_id |-> "M1"]}
       [] e = "invoices" -> {[id |-> "I1", job_id |-> "J1"]}
       [] e = "quotes" -> {[id |-> "Q1", contact_id |-> "C1"]}
       [] e = "conversations" ->
            {[id |-> "V1", initiator_crew_id |-> "M1", recipient_crew_id |-> NULL,
              initiator_contact_id |-> NULL, recipient_contact_id |-> "C1"]}]

\* the file has been applied, no run is in progress, the sink is reachable
Init ==
  /\ db = EmptyDb
  /\ pc = "idle"
  /\ decision = NoDecision
  /\ appended = 0
  /\ installed = Created
  /\ rls = AllTables
  /\ run = NoRun(MaxRuns, "autocommit")
  /\ sinkUp = TRUE
  /\ NoOtherRun

\* a server-side write with the service_role key, which bypasses RLS
ServiceInsert(entity, row) ==
  /\ pc = "idle"
  /\ Cardinality(db["jobs"]) + Cardinality(db["job_crew_assignments"])
       + Cardinality(db["invoices"]) < MaxRows
  /\ \A r \in db[entity] : KeyOf(entity, r) # KeyOf(entity, row)
  /\ db' = [db EXCEPT ![entity] = @ \cup {row}]
  /\ UNCHANGED <<pc, decision, appended, installed, rls, run, sinkUp, crew_members, f006, req>>

ServiceDelete(entity, row) ==
  /\ pc = "idle"
  /\ row \in db[entity]
  /\ db' = [db EXCEPT ![entity] = @ \ {row}]
  /\ UNCHANGED <<pc, decision, appended, installed, rls, run, sinkUp, crew_members, f006, req>>

\* the rows a request can name: an existing row to read, update or delete,
\* a candidate row to create
TargetRows(entity, op) ==
  IF entity \in LookupTables
    THEN IF op = "Create"
           THEN {r \in RowsOf(entity) :
                   \A x \in db[entity] : KeyOf(entity, x) # KeyOf(entity, r)}
           ELSE db[entity]
    ELSE RowsOf(entity)

Faults ==
  {NoFault} \cup [at : 1..MaxFailAt, kind : {"StorageError", "DeadlineExceeded"}]

\* one call of decide: the outcome, and its Decision Record appended to the
\* sink before the verdict is handed back
Decide(jwt, entity, op, row, fault) ==
  /\ pc = "idle"
  /\ LET o == deliver(decide(jwt, entity, op, row, db, fault.at), sinkUp)
     IN decision' =
          [principal |-> jwt, entity |-> entity, operation |-> op, row |-> row,
           verdict |-> o.verdict, reason |-> o.reason,
           matchedPolicy |-> o.matchedPolicy, lookups |-> o.lookups,
           fault |-> IF fault.at > 0 /\ o.lookups >= fault.at
                     THEN fault ELSE NoFault,
           persisted |-> o.persisted]
  /\ appended' = IF sinkUp THEN record(appended, decision') ELSE appended
  /\ pc' = "decided"
  /\ UNCHANGED <<db, installed, rls, run, sinkUp, crew_members, f006, req>>

\* the verdict is handed to the caller; the call is over
Return ==
  /\ pc = "decided"
  /\ pc' = "idle"
  /\ decision' = NoDecision
  /\ appended' = 0
  /\ UNCHANGED <<db, installed, rls, run, sinkUp, crew_members, f006, req>>

Next ==
  \/ pc = "idle" /\ \E entity \in StoredEntities : \E row \in RowsOf(entity) :
       ServiceInsert(entity, row)
  \/ pc = "idle" /\ \E entity \in StoredEntities : \E row \in db[entity] :
       ServiceDelete(entity, row)
  \/ pc = "idle" /\
       \E jwt \in Jwts, entity \in Entities, op \in Operations, fault \in Faults :
         \E row \in TargetRows(entity, op) : Decide(jwt, entity, op, row, fault)
  \/ Return

Spec == Init /\ [][Next]_vars

----------------------------------------------------------------------------
(* Every table of the file, on fixed data *)

InitTables ==
  /\ db \in {EmptyDb, SeedDb}
  /\ pc = "idle"
  /\ decision = NoDecision
  /\ appended = 0
  /\ installed = Created
  /\ rls = AllTables
  /\ run = NoRun(MaxRuns, "autocommit")
  /\ sinkUp = TRUE
  /\ NoOtherRun

NextTables ==
  \/ pc = "idle" /\
       \E jwt \in Jwts, entity \in AllTables, op \in Operations, fault \in Faults :
         \E row \in TargetRows(entity, op) : Decide(jwt, entity, op, row, fault)
  \/ Return

TablesSpec == InitTables /\ [][NextTables]_vars

----------------------------------------------------------------------------
(* The Audit Sink going away and coming back *)

InitSink ==
  /\ db \in {EmptyDb, SeedDb}
  /\ pc = "idle"
  /\ decision = NoDecision
  /\ appended = 0
  /\ installed = Created
  /\ rls = AllTables
  /\ run = NoRun(MaxRuns, "autocommit")
  /\ sinkUp \in BOOLEAN
  /\ NoOtherRun

SinkFail ==
  /\ pc = "idle"
  /\ sinkUp
  /\ sinkUp' = FALSE
  /\ UNCHANGED <<db, pc, decision, appended, installed, rls, run, crew_members, f006, req>>

SinkRecover ==
  /\ pc = "idle"
  /\ ~sinkUp
  /\ sinkUp' = TRUE
  /\ UNCHANGED <<db, pc, decision, appended, installed, rls, run, crew_members, f006, req>>

NextSink ==
  \/ SinkFail
  \/ SinkRecover
  \/ pc = "idle" /\
       \E jwt \in Jwts, entity \in Entities, op \in Operations, fault \in Faults :
         \E row \in TargetRows(entity, op) : Decide(jwt, entity, op, row, fault)
  \/ Return

SinkSpec == InitSink /\ [][NextSink]_vars

----------------------------------------------------------------------------
(* Applying RLS_HARDENING.sql *)

\* the catalog the statements of the run in progress act on
Current ==
  IF run.mode = "transaction" THEN run.work ELSE Catalog(installed, rls)

ScriptStart ==
  /\ pc = "idle"
  /\ run.at = 0
  /\ run.n < MaxRuns
  /\ run' = [run EXCEPT !.at = 1, !.errors = {},
                         !.work = Catalog(installed, rls)]
  /\ UNCHANGED <<db, pc, decision, appended, installed, rls, sinkUp, crew_members, f006, req>>

\* how a run ended, and the catalog it left
RunOutcome(status, errors, cat) ==
  [status |-> status, errors |-> errors, installed |-> cat.installed,
   rls |-> cat.rls]

\* the next statement of the file.  Run statement by statement, its effect
\* is committed at once and an error leaves the statement undone; run in one
\* transaction, its effect stays in the transaction and an error ends the
\* run with everything rolled back.
ScriptStatement ==
  /\ pc = "idle"
  /\ run.at \in 1..Len(Script)
  /\ LET r == Exec(Script[run.at], Current)
     IN IF run.mode = "autocommit"
          THEN /\ installed' = r.cat.installed
               /\ rls' = r.cat.rls
               /\ run' = [run EXCEPT
                            !.at = @ + 1,
                            !.errors = IF r.err THEN @ \cup {Script[run.at].name}
                                       ELSE @]
          ELSE /\ UNCHANGED <<installed, rls>>
               /\ run' = IF r.err
                           THEN [run EXCEPT
                                   !.n = @ + 1, !.at = 0,
                                   !.prev = run.last,
                                   !.last = RunOutcome("aborted",
                                                     {Script[run.at].name},
                                                     Catalog(installed, rls))]
                           ELSE [run EXCEPT !.at = @ + 1, !.work = r.cat]
  /\ UNCHANGED <<db, pc, decision, appended, sinkUp, crew_members, f006, req>>

\* the end of the file: a transaction commits
ScriptEnd ==
  /\ pc = "idle"
  /\ run.at = Len(Script) + 1
  /\ installed' = Current.installed
  /\ rls' = Current.rls
  /\ run' = [run EXCEPT !.n = @ + 1, !.at = 0,
                         !.prev = run.last,
                         !.last = RunOutcome("completed", run.errors, Current)]
  /\ UNCHANGED <<db, pc, decision, appended, sinkUp, crew_members, f006, req>>

\* a database the file has not been applied to
InitScript ==
  /\ db = EmptyDb
  /\ pc = "idle"
  /\ decision = NoDecision
  /\ appended = 0
  /\ installed \in SUBSET {"legacy_allow_all", "jobs_admin_all", "plan_limits_public_read"}
  /\ rls \in {{}, {"jobs"}, AllTables}
  /\ \E mode \in RunModes : run = NoRun(0, mode)
  /\ sinkUp = TRUE
  /\ NoOtherRun

NextScript == ScriptStart \/ ScriptStatement \/ ScriptEnd

ScriptSpec == InitScript /\ [][NextScript]_vars

----------------------------------------------------------------------------
(* Writes to the job child tables: USING on the stored row, WITH CHECK on the
   row as written *)

InitWrites ==
  /\ db = [e \in LookupTables \cup JobChildTables |-> {}]
  /\ pc = "idle"
  /\ decision = NoDecision
  /\ appended = 0
  /\ installed = Created
  /\ rls = AllTables
  /\ run = NoRun(MaxRuns, "autocommit")
  /\ sinkUp = TRUE
  /\ NoOtherRun

\* INSERT of row new (old = new), or UPDATE of the stored row old to new: an
\* UPDATE touches old only if a policy's USING passes on it, and either
\* statement stores new only if a policy's WITH CHECK passes on it
Write(jwt, entity, op, old, new) ==
  /\ pc = "idle"
  /\ LET using == decide(jwt, entity, op, old, db, NoFault.at)
         check == decide(jwt, entity, op, new, db, NoFault.at)
         o == deliver(IF op = "Update" /\ using.verdict = "DENY"
                        THEN using ELSE check, sinkUp)
     IN /\ decision' =
             [principal |-> jwt, entity |-> entity, operation |-> op,
              row |-> IF op = "Update" /\ using.verdict = "DENY"
                      THEN old ELSE new,
              verdict |-> o.verdict, reason |-> o.reason,
              matchedPolicy |-> o.matchedPolicy, lookups |-> o.lookups,
              fault |-> NoFault, persisted |-> o.persisted]
        /\ db' = IF o.verdict = "ALLOW"
                   THEN [db EXCEPT ![entity] = (@ \ {old}) \cup {new}]
                   ELSE db
  /\ appended' = IF sinkUp THEN record(appended, decision') ELSE appended
  /\ pc' = "decided"
  /\ UNCHANGED <<installed, rls, run, sinkUp, crew_members, f006, req>>

NextWrites ==
  \/ pc = "idle" /\ \E row \in RowsOf("job_crew_assignments") :
       ServiceInsert("job_crew_assignments", row)
  \/ pc = "idle" /\ \E row \in db["job_crew_assignments"] :
       ServiceDelete("job_crew_assignments", row)
  \/ pc = "idle" /\
       \E jwt \in Jwts, entity \in JobChildTables :
         \E new \in RowsOf(entity) :
           \/ /\ \A x \in db[entity] : x.id # new.id
              /\ Cardinality(db["job_locations"]) + Cardinality(db["job_services"])
                   + Cardinality(db["job_addons"]) + Cardinality(db["job_notes"])
                   < MaxRows
              /\ Write(jwt, entity, "Create", new, new)
           \/ \E old \in db[entity] :
                old.id = new.id /\ Write(jwt, entity, "Update", old, new)
  \/ Return

WritesSpec == InitWrites /\ [][NextWrites]_vars

----------------------------------------------------------------------------
(* F006_role_constraint.sql applied statement by statement, and the writes
   of the application to crew_members *)

\* 1. UPDATE crew_members SET role = LOWER(TRIM(role)) WHERE role IS NOT NULL
F006Normalize(mode) ==
  /\ f006.step = 0
  /\ crew_members' =
       [crew_members EXCEPT !.rows =
          {[r EXCEPT !.role = IF r.role = NoRole THEN r.role
                              ELSE LOWER(TRIM(r.role))] : r \in @}]
  /\ f006' = [step |-> 1, mode |-> mode, errors |-> FALSE,
              status |-> f006.status,
              before |-> IF mode = "transaction" THEN crew_members
                         ELSE [rows |-> {}, check |-> FALSE, dflt |-> NoRole]]
  /\ UNCHANGED <<db, pc, decision, appended, installed, rls, run, sinkUp, req>>

\* 2a. ALTER TABLE crew_members DROP CONSTRAINT IF EXISTS crew_members_role_check
F006DropConstraint ==
  /\ f006.step = 1
  /\ crew_members' = [crew_members EXCEPT !.check = FALSE]
  /\ f006' = [f006 EXCEPT !.step = 2]
  /\ UNCHANGED <<db, pc, decision, appended, installed, rls, run, sinkUp, req>>

\* 2b. ALTER TABLE crew_members ADD CONSTRAINT crew_members_role_check: the
\* statement fails when a stored row violates the constraint; in a
\* transaction the run is rolled back, otherwise the next statement runs
F006AddConstraint ==
  /\ f006.step = 2
  /\ IF \A r \in crew_members.rows : crew_members_role_check(r.role) # "false"
       THEN /\ crew_members' = [crew_members EXCEPT !.check = TRUE]
            /\ f006' = [f006 EXCEPT !.step = 3]
     ELSE IF f006.mode = "transaction"
       THEN /\ crew_members' = f006.before
            /\ f006' = [f006 EXCEPT !.step = 0, !.status = "failed",
                          !.before = [rows |-> {}, check |-> FALSE,
                                      dflt |-> NoRole]]
       ELSE /\ crew_members' = crew_members
            /\ f006' = [f006 EXCEPT !.step = 3, !.errors = TRUE]
  /\ UNCHANGED <<db, pc, decision, appended, installed, rls, run, sinkUp, req>>

\* 3. ALTER TABLE crew_members ALTER COLUMN role SET DEFAULT 'crew', and the
\* closing SELECT, which only reads
F006SetDefault ==
  /\ f006.step = 3
  /\ crew_members' = [crew_members EXCEPT !.dflt = Text("crew")]
  /\ f006' = [f006 EXCEPT !.step = 0,
                !.status = IF f006.errors THEN "failed" ELSE "ok",
                !.before = [rows |-> {}, check |-> FALSE, dflt |-> NoRole]]
  /\ UNCHANGED <<db, pc, decision, appended, installed, rls, run, sinkUp, req>>

\* INSERT INTO crew_members: the column default stands in for a role the
\* statement does not give; a row violating the constraint is rejected
InsertCrew(id, given, role) ==
  /\ f006.step = 0 \/ f006.mode = "autocommit"
  /\ \A r \in crew_members.rows : r.id # id
  /\ LET v == IF given THEN role ELSE crew_members.dflt
     IN crew_members' =
          IF crew_members.check /\ crew_members_role_check(v) = "false"
            THEN crew_members
            ELSE [crew_members EXCEPT !.rows = @ \cup {[id |-> id, role |-> v]}]
  /\ UNCHANGED <<db, pc, decision, appended, installed, rls, run, sinkUp, f006, req>>

\* UPDATE crew_members SET role = ... WHERE id = ...
UpdateCrew(id, role) ==
  /\ f006.step = 0 \/ f006.mode = "autocommit"
  /\ \E r \in crew_members.rows :
       /\ r.id = id
       /\ crew_members' =
            IF crew_members.check /\ crew_members_role_check(role) = "false"
              THEN crew_members
              ELSE [crew_members EXCEPT
                      !.rows = (@ \ {r}) \cup {[id |-> id, role |-> role]}]
  /\ UNCHANGED <<db, pc, decision, appended, installed, rls, run, sinkUp, f006, req>>

NextF006 ==
  \/ \E mode \in RunModes : F006Normalize(mode)
  \/ F006DropConstraint
  \/ F006AddConstraint
  \/ F006SetDefault
  \/ \E id \in CrewIds, given \in BOOLEAN, role \in RoleValues :
       InsertCrew(id, given, role)
  \/ \E id \in CrewIds, role \in RoleValues : UpdateCrew(id, role)

F006Spec == Init /\ [][NextF006]_vars

----------------------------------------------------------------------------
(* health-check.js: checkUrl per service, and the events of its request *)

\* new Promise(...): the request is sent, the three handlers are registered
checkUrl(s) ==
  /\ req[s].promise.state = "none"
  /\ req' = [req EXCEPT ![s].promise.state = "pending"]
  /\ UNCHANGED <<db, pc, decision, appended, installed, rls, run, sinkUp, crew_members, f006>>

\* the response callback of client.get
OnResponse(s, statusCode) ==
  /\ req[s].promise.state # "none"
  /\ ~req[s].destroyed
  /\ \A i \in 1..Len(req[s].events) : req[s].events[i].type # "response"
  /\ LET service == SERVICES[s]
         expects == IF service.isArray THEN service.expect
                    ELSE <<service.expect>>
         ok == \E i \in 1..Len(expects) : expects[i] = statusCode
     IN req' = [req EXCEPT
                  ![s].promise = resolve(@, statusCode, ok),
                  ![s].events =
                     Append(@, [type |-> "response", status |-> statusCode])]
  /\ UNCHANGED <<db, pc, decision, appended, installed, rls, run, sinkUp, crew_members, f006>>

\* req.on('error'): a network error, or the socket hang up that destroying
\* the request raises
OnError(s) ==
  /\ req[s].promise.state # "none"
  /\ \A i \in 1..Len(req[s].events) : req[s].events[i].type # "error"
  /\ req' = [req EXCEPT
               ![s].promise = resolve(@, "ERROR", FALSE),
               ![s].events = Append(@, [type |-> "error", status |-> "ERROR"])]
  /\ UNCHANGED <<db, pc, decision, appended, installed, rls, run, sinkUp, crew_members, f006>>

\* req.on('timeout'): req.destroy(), then resolve
OnTimeout(s) ==
  /\ req[s].promise.state # "none"
  /\ \A i \in 1..Len(req[s].events) : req[s].events[i].type # "timeout"
  /\ req' = [req EXCEPT
               ![s].destroyed = TRUE,
               ![s].promise = resolve(@, "TIMEOUT", FALSE),
               ![s].events =
                  Append(@, [type |-> "timeout", status |-> "TIMEOUT"])]
  /\ UNCHANGED <<db, pc, decision, appended, installed, rls, run, sinkUp, crew_members, f006>>

NextHealth ==
  \/ \E s \in DOMAIN SERVICES : checkUrl(s)
  \/ \E s \in DOMAIN SERVICES, statusCode \in StatusCodes :
       OnResponse(s, statusCode)
  \/ \E s \in DOMAIN SERVICES : OnError(s)
  \/ \E s \in DOMAIN SERVICES : OnTimeout(s)

HealthSpec == Init /\ [][NextHealth]_vars

----------------------------------------------------------------------------
(* Re-applying the file while requests are decided *)

InitReload ==
  /\ db = SeedDb
  /\ pc = "idle"
  /\ decision = NoDecision
  /\ appended = 0
  /\ installed = Created
  /\ rls = AllTables
  /\ \E mode \in RunModes : run = NoRun(MaxRuns - 1, mode)
  /\ sinkUp = TRUE
  /\ NoOtherRun

NextReload ==
  \/ ScriptStart
  \/ ScriptStatement
  \/ ScriptEnd
  \/ pc = "idle" /\
       \E jwt \in Jwts, entity \in Entities, op \in Operations, fault \in Faults :
         \E row \in TargetRows(entity, op) : Decide(jwt, entity, op, row, fault)
  \/ Return

ReloadSpec == InitReload /\ [][NextReload]_vars

----------------------------------------------------------------------------
(* Properties *)

Decided == pc = "decided"

\* the decided call is (role, entity, op)
Call(role, entity, op) ==
  /\ Decided
  /\ decision.principal.role = role
  /\ decision.entity = entity
  /\ decision.operation = op

Allowed == decision.verdict = "ALLOW"

Denied(reason) == decision.verdict = "DENY" /\ decision.reason = reason

\* the tables whose admin policy is FOR ALL USING (role = 'admin')
AdminAllTables ==
  {"jobs", "job_crew_assignments", "invoices", "payments", "payment_methods"}

\* C1: an admin principal, on every table and operation with an unconditional
\* admin policy and whatever the row holds, is allowed with reason
\* AdminOverride, and no relationship lookup is issued for the call.
C1_AdminOverride ==
  (Decided /\ decision.principal.role = "admin"
     /\ decision.entity \in AdminAllTables)
    => /\ Allowed
       /\ decision.reason = "AdminOverride"
       /\ decision.lookups = 0

C1_Witness ==
  /\ Call("admin", "jobs", "Delete")
  /\ decision.row.contact_id = NULL
  /\ decision.principal.contact_id = NULL
  /\ Allowed
  /\ decision.reason = "AdminOverride"

\* C2: when the registry holds no policy for (entity, role, operation),
\* policiesFor is empty and the call is denied with reason NoPolicy; so it is
\* for a crew or client principal on payment_methods, whatever the operation,
\* the row and the claims.
C2_NoPolicy ==
  Decided =>
    LET ps == policiesFor(decision.entity, decision.principal.role,
                          decision.operation)
    IN /\ ps = <<>> => Denied("NoPolicy")
       /\ (decision.entity = "payment_methods"
             /\ decision.principal.role \in {"crew", "client"})
            => ps = <<>> /\ Denied("NoPolicy")

C2_Witness ==
  /\ Call("crew", "payment_methods", "Read")
  /\ decision.principal.crew_member_id = "M1"
  /\ Denied("NoPolicy")

\* C3: the ownership comparison is false, and the call is an ordinary
\* PredicateFailed denial, whenever the principal lacks the claim or the row
\* has NULL in the column: a client without contact_id does not match a jobs
\* row without contact_id, a crew principal without crew_member_id matches no
\* assignment row.
C3_FieldEqualsNull ==
  /\ (Call("client", "jobs", "Read")
        /\ (decision.principal.contact_id = NULL \/ decision.row.contact_id = NULL))
       => Denied("PredicateFailed") /\ decision.fault = NoFault
  /\ (Call("crew", "job_crew_assignments", "Read")
        /\ decision.principal.crew_member_id = NULL)
       => Denied("PredicateFailed") /\ decision.fault = NoFault

C3_Witness ==
  /\ Call("client", "jobs", "Read")
  /\ decision.principal.contact_id = NULL
  /\ decision.row.contact_id = NULL
  /\ Denied("PredicateFailed")

\* C4: a client with contact_id C reading a jobs row is allowed when the row's
\* contact_id is C and denied with reason PredicateFailed when it is anything
\* else (another contact, or NULL).
C4_ClientReadsOwnJobs ==
  (Call("client", "jobs", "Read") /\ decision.principal.contact_id # NULL)
    => IF decision.row.contact_id = decision.principal.contact_id
         THEN Allowed /\ decision.matchedPolicy = "jobs_client_own"
         ELSE Denied("PredicateFailed")

C4_Witness ==
  /\ Call("client", "jobs", "Read")
  /\ decision.principal.contact_id = "C1"
  /\ decision.row = [id |-> "J1", contact_id |-> "C1"]
  /\ Allowed

\* an assignment row links the decided jobs row to the crew principal
AssignedToCaller ==
  \E a \in db["job_crew_assignments"] :
    /\ a.job_id = decision.row.id
    /\ a.crew_member_id = decision.principal.crew_member_id

\* C5: a crew principal M reading a jobs row J is allowed only if
\* job_crew_assignments holds (J.id, M), and is allowed whenever it does and
\* the lookup does not fail; other members' assignments to J and M's
\* assignments to other jobs do not count.
C5_CrewReadsAssignedJobs ==
  Call("crew", "jobs", "Read")
    => /\ Allowed => AssignedToCaller
       /\ (AssignedToCaller /\ decision.fault = NoFault)
            => Allowed /\ decision.matchedPolicy = "jobs_crew_read"
       /\ (~AssignedToCaller /\ decision.fault = NoFault)
            => Denied("PredicateFailed")

C5_Witness ==
  /\ Call("crew", "jobs", "Read")
  /\ decision.principal.crew_member_id = "M1"
  /\ decision.row.id = "J1"
  /\ [job_id |-> "J1", crew_member_id |-> "M1"] \in db["job_crew_assignments"]
  /\ Allowed

\* the decided payments row names an existing invoice whose job exists and
\* belongs to the caller's contact
PaymentChainToCaller ==
  \E i \in db["invoices"] :
    /\ i.id = decision.row.invoice_id
    /\ \E j \in db["jobs"] :
         /\ j.id = i.job_id
         /\ j.contact_id # NULL
         /\ j.contact_id = decision.principal.contact_id

\* C6: the two-hop predicate of payments_client_own is true exactly when the
\* chain payment -> invoice -> job exists and the job's contact_id is the
\* caller's: no invoice, no job, or another contact make it false.
C6_TwoHopExistsRelated ==
  Call("client", "payments", "Read")
    => /\ Allowed => PaymentChainToCaller
       /\ (PaymentChainToCaller /\ decision.fault = NoFault)
            => Allowed /\ decision.matchedPolicy = "payments_client_own"
       /\ (~PaymentChainToCaller /\ decision.fault = NoFault)
            => Denied("PredicateFailed")

C6_Witness ==
  /\ Call("client", "payments", "Read")
  /\ decision.principal.contact_id = "C2"
  /\ decision.row.invoice_id = "I1"
  /\ [id |-> "I1", job_id |-> "J2"] \in db["invoices"]
  /\ [id |-> "J2", contact_id |-> "C2"] \in db["jobs"]
  /\ Allowed
  /\ decision.lookups = 2

\* C7: a client is allowed on an invoices row only to Read it, and only if the
\* invoice's job_id names an existing job whose contact_id is the client's.
C7_ClientInvoices ==
  (Decided /\ decision.principal.role = "client"
     /\ decision.entity = "invoices" /\ Allowed)
    => /\ decision.operation = "Read"
       /\ \E j \in db["jobs"] :
            /\ j.id = decision.row.job_id
            /\ j.contact_id # NULL
            /\ j.contact_id = decision.principal.contact_id

C7_Witness ==
  /\ Call("client", "invoices", "Read")
  /\ decision.principal.contact_id = "C1"
  /\ decision.row = [id |-> "I1", job_id |-> "J1"]
  /\ [id |-> "J1", contact_id |-> "C1"] \in db["jobs"]
  /\ Allowed

\* C8: an anon principal is denied every operation on every invoices row with
\* reason NoPolicy.
C8_AnonInvoices ==
  (Decided /\ decision.principal.role = "anon" /\ decision.entity = "invoices")
    => Denied("NoPolicy")

C8_Witness ==
  /\ Call("anon", "invoices", "Read")
  /\ decision.principal.contact_id = "C1"
  /\ decision.row = [id |-> "I1", job_id |-> "J1"]
  /\ [id |-> "J1", contact_id |-> "C1"] \in db["jobs"]
  /\ Denied("NoPolicy")

\* C9: when a lookup issued by the call failed (storage error or deadline),
\* the call is denied with reason ResolutionError: it is not allowed and the
\* failure is not reported as PredicateFailed or NoPolicy.
C9_ResolutionError ==
  (Decided /\ decision.fault # NoFault) => Denied("ResolutionError")

C9_Witness ==
  /\ Call("client", "payments", "Read")
  /\ decision.fault = [at |-> 2, kind |-> "DeadlineExceeded"]
  /\ PaymentChainToCaller
  /\ Denied("ResolutionError")

C12_RoleValidated ==
  Decided => get_jwt_role(decision.principal) \in {"admin", "crew", "client", "anon"}

\* C13: a verdict is produced for a crew token only if it carries
\* crew_member_id and for a client token only if it carries contact_id: a
\* token without its scoped id is rejected before any policy is evaluated.
C13_ScopeRequired ==
  Decided =>
    /\ get_jwt_role(decision.principal) = "crew"
         => get_crew_member_id(decision.principal) # NULL
    /\ get_jwt_role(decision.principal) = "client"
         => get_contact_id(decision.principal) # NULL

\* C18: a crew principal allowed on a jobs row is reading or updating it, and
\* job_crew_assignments links the job to the principal's crew_member_id in
\* the data the call sees; with that link and no failed lookup Read and Update
\* are allowed, and without it (never assigned, or unassigned since) they are
\* denied.
C18_CrewJobsWhileAssigned ==
  (Decided /\ decision.principal.role = "crew" /\ decision.entity = "jobs")
    => /\ Allowed => (decision.operation \in {"Read", "Update"} /\ AssignedToCaller)
       /\ (decision.operation \in {"Read", "Update"} /\ decision.fault = NoFault)
            => (Allowed <=> AssignedToCaller)
       /\ decision.operation \in {"Create", "Delete"} => Denied("NoPolicy")

C18_Witness ==
  /\ Call("crew", "jobs", "Update")
  /\ decision.principal.crew_member_id = "M2"
  /\ decision.row.id = "J1"
  /\ db["job_crew_assignments"] = {[job_id |-> "J1", crew_member_id |-> "M2"]}
  /\ Allowed
  /\ decision.matchedPolicy = "jobs_crew_update"

\* C14: every decided call was evaluated against a complete policy set, the
\* one before the reload or the one after it (for a re-run of the file both
\* are the set the file creates): never against a set from which policies
\* have been dropped and not yet recreated.
C14_ReloadAtomic ==
  Decided => installed = Created

\* the predicate of policy p is true of the decided call
PredicateHolds(p) ==
  Resolve(p.predicate, decision.principal, decision.row, db, 0, 0).v = "T"

\* the lookups that evaluating ps[1..i] one after the other issues
RECURSIVE LookupsUpTo(_, _)
LookupsUpTo(ps, i) ==
  IF i = 0 THEN 0
  ELSE LookupsUpTo(ps, i - 1)
         + Resolve(ps[i].predicate, decision.principal, decision.row, db, 0, 0).n

AdminReadTables == {"notifications", "auth_tokens", "client_auth_tokens"}

PublicRow ==
  \/ decision.entity \in {"services", "service_areas"}
       /\ decision.row.is_active = "true"
  \/ decision.entity = "testimonials" /\ decision.row.is_approved = "true"

C19_SinkBestEffort ==
  Decided =>
    LET o == decide(decision.principal, decision.entity, decision.operation,
                    decision.row, db, decision.fault.at)
    IN /\ decision.verdict = o.verdict
       /\ decision.reason = o.reason
       /\ decision.matchedPolicy = o.matchedPolicy
       /\ decision.persisted = sinkUp
       /\ appended = IF sinkUp THEN 1 ELSE 0

C19_Witness ==
  /\ Call("client", "jobs", "Read")
  /\ ~sinkUp
  /\ Allowed
  /\ decision.reason = "PolicyMatch"
  /\ ~decision.persisted

C30_VerdictReasonConsistent ==
  Decided =>
    \/ /\ decision.verdict = "ALLOW"
       /\ decision.reason \in {"AdminOverride", "PolicyMatch"}
       /\ decision.matchedPolicy \in PolicyNames
       /\ \E i \in DOMAIN PoliciesOn[decision.entity] :
            PoliciesOn[decision.entity][i].name = decision.matchedPolicy
    \/ /\ decision.verdict = "DENY"
       /\ decision.reason \in {"NoPolicy", "PredicateFailed", "ResolutionError"}
       /\ decision.matchedPolicy = NoPolicyId

C30_Witness ==
  /\ Call("client", "quote_services", "Read")
  /\ decision.fault = [at |-> 1, kind |-> "StorageError"]
  /\ Denied("ResolutionError")
  /\ decision.matchedPolicy = NoPolicyId

\* the policies whose USING expression starts with auth.get_jwt_role() = 'client'
ClientPolicies ==
  {"contacts_client_own", "jobs_client_own", "job_locations_client_own",
   "job_crew_assignments_client_read", "job_services_client_own",
   "job_addons_client_own", "job_notes_client_own", "invoices_client_own",
   "payments_client_own", "quotes_client_own", "quote_services_client_own",
   "notifications_client_own", "client_auth_tokens_client_own"}

\* the policies whose USING expression starts with auth.get_jwt_role() = 'crew'
CrewPolicies ==
  {"contacts_crew_read", "jobs_crew_read", "jobs_crew_update",
   "job_locations_crew_access", "job_crew_assignments_crew_own",
   "job_services_crew_access", "job_addons_crew_access",
   "job_notes_crew_access", "crew_members_crew_own", "crew_schedules_crew_own",
   "crew_availability_crew_own", "notifications_crew_own",
   "auth_tokens_crew_own", "ai_profiles_crew_own"}

\* the tables on which every non-admin policy is a client policy, with the
\* operations those policies cover
ClientOnlyAccess ==
  [contacts |-> {"Read"}, invoices |-> {"Read"}, payments |-> {"Read"},
   quotes |-> {"Read"}, quote_services |-> {"Read"},
   client_auth_tokens |-> AllOps]

\* C28: a call allowed by a client policy is a client's and a call allowed by
\* a crew policy is a crew member's, whatever scoped ids the token carries;
\* on the tables whose only non-admin policies are client policies nobody but
\* admin and client is allowed anything, and an admin or crew token carrying
\* the contact_id of a notifications row gains nothing from
\* notifications_client_own.
C28_RoleIsolation ==
  (Decided /\ Allowed) =>
    /\ decision.matchedPolicy \in ClientPolicies
         => decision.principal.role = "client"
    /\ decision.matchedPolicy \in CrewPolicies
         => decision.principal.role = "crew"
    /\ decision.entity \in DOMAIN ClientOnlyAccess
         => decision.principal.role \in {"admin", "client"}
    /\ (decision.entity = "notifications"
          /\ decision.principal.role \notin {"crew", "client"})
         => decision.principal.role = "admin" /\ decision.operation = "Read"
    /\ (decision.entity = "notifications" /\ decision.principal.role = "crew")
         => decision.row.crew_member_id = decision.principal.crew_member_id

\* a crew token that also carries the contact_id the row belongs to is denied
C28_Witness ==
  /\ Call("crew", "notifications", "Update")
  /\ decision.principal.contact_id = "C1"
  /\ decision.principal.crew_member_id = "M1"
  /\ decision.row.contact_id = "C1"
  /\ decision.row.crew_member_id = "M2"
  /\ Denied("PredicateFailed")

\* the (role, table) pairs with a policy whose predicate is a subquery, and
\* the operations of those policies
SubqueryAccess(role, entity) ==
  CASE role = "crew" /\ entity = "jobs" -> {"Read", "Update"}
    [] role = "crew" /\ entity \in JobChildTables -> AllOps
    [] role = "client"
         /\ entity \in JobChildTables
              \cup {"job_crew_assignments", "invoices", "payments",
                    "quote_services"} -> {"Read"}
    [] role # "admin" /\ entity = "messages" -> AllOps
    [] OTHER -> {}

Participant(c) ==
  \/ /\ decision.principal.role = "crew"
     /\ decision.principal.crew_member_id # NULL
     /\ decision.principal.crew_member_id
          \in {c.initiator_crew_id, c.recipient_crew_id}
  \/ /\ decision.principal.role = "client"
     /\ decision.principal.contact_id # NULL
     /\ decision.principal.contact_id
          \in {c.initiator_contact_id, c.recipient_contact_id}

\* C23: a call allowed on a messages row is an admin's, or the row's
\* conversation_id names an existing conversation of which the principal is
\* a participant; a crew or client principal who is neither initiator nor
\* recipient, an anon principal and a token without role are denied every
\* operation on the message.
C23_MessagesParticipantOnly ==
  (Decided /\ decision.entity = "messages") =>
    /\ Allowed =>
         \/ decision.principal.role = "admin"
         \/ \E c \in db["conversations"] :
              c.id = decision.row.conversation_id /\ Participant(c)
    /\ decision.principal.role \notin {"admin", "crew", "client"} => ~Allowed

C23_Witness ==
  /\ Call("crew", "messages", "Read")
  /\ decision.principal.crew_member_id = "M2"
  /\ decision.principal.contact_id = "C1"
  /\ decision.row.conversation_id = "V1"
  /\ \E c \in db["conversations"] :
       c.id = "V1" /\ c.initiator_crew_id = "M1" /\ c.recipient_contact_id = "C1"
  /\ Denied("PredicateFailed")

\* the decided orgs row is an organization the principal is a member of
OwnOrg ==
  \E m \in org_members :
    /\ m.org_id = decision.row.id
    /\ m.user_id = IF decision.principal.role = "crew"
                     THEN decision.principal.crew_member_id
                     ELSE decision.principal.contact_id

\* C24: a crew or client principal allowed to Read an orgs row is a member
\* of that organization.
C24_OrgsOwnOnly ==
  (Call("crew", "orgs", "Read") \/ Call("client", "orgs", "Read"))
    => (Allowed => OwnOrg)

\* the decided contacts row is the contact of a job that job_crew_assignments
\* links to the principal's crew_member_id
ContactOfAssignedJob ==
  \E j \in db["jobs"] :
    /\ j.contact_id = decision.row.id
    /\ \E a \in db["job_crew_assignments"] :
         /\ a.job_id = j.id
         /\ a.crew_member_id = decision.principal.crew_member_id

\* C25: a crew principal M reading a contacts row is allowed if and only if
\* some job of that contact is assigned to M (when no lookup fails).
C25_CrewReadsContactsOfJobs ==
  (Call("crew", "contacts", "Read") /\ decision.fault = NoFault)
    => (Allowed <=> ContactOfAssignedJob)

\* C29: a row of job_locations, job_services, job_addons or job_notes that a
\* crew principal M has just created or updated is stored with a job_id that
\* job_crew_assignments links to M at the time of the write.
C29_CrewWritesAssignedJobsOnly ==
  (/\ Decided
   /\ Allowed
   /\ decision.principal.role = "crew"
   /\ decision.entity \in JobChildTables
   /\ decision.operation \in {"Create", "Update"})
    => /\ decision.row \in db[decision.entity]
       /\ \E a \in db["job_crew_assignments"] :
            /\ a.job_id = decision.row.job_id
            /\ a.crew_member_id = decision.principal.crew_member_id

\* crew member M1, assigned to J1 and J2, has re-pointed a job_notes row
C29_Witness ==
  /\ Call("crew", "job_notes", "Update")
  /\ Allowed
  /\ decision.principal.crew_member_id = "M1"
  /\ decision.row = [id |-> "R1", job_id |-> "J2"]
  /\ decision.row \in db["job_notes"]
  /\ [job_id |-> "J1", crew_member_id |-> "M1"] \in db["job_crew_assignments"]

\* C26: once F006_role_constraint.sql has run to its end without error, every
\* crew_members row has role 'admin' or 'crew'.
C26_RoleAdminOrCrew ==
  (f006.step = 0 /\ f006.status = "ok")
    => \A r \in crew_members.rows : r.role \in {Text("admin"), Text("crew")}

\* the status codes a service expects (health-check.js lines 15-27)
ExpectedCodes(s) == IF s = "Supabase" THEN {"200", "401"} ELSE {"200"}

\* C27: the promise of checkUrl is never rejected, is settled as soon as one
\* event has been handled, and then holds the report of the first event
\* whatever events follow: TIMEOUT and not ok for a timeout, ERROR and not ok
\* for an error, and for a response its status code, ok exactly when the code
\* is one the service expects.
C27_SettlesOnceWithFirstEvent ==
  \A s \in DOMAIN SERVICES :
    LET r == req[s]
    IN /\ r.promise.state \in {"none", "pending", "fulfilled"}
       /\ r.events = <<>> => r.promise.state # "fulfilled"
       /\ r.events # <<>> =>
            /\ r.promise.state = "fulfilled"
            /\ r.promise.status = r.events[1].status
            /\ r.promise.ok <=>
                 /\ r.events[1].type = "response"
                 /\ r.events[1].status \in ExpectedCodes(s)

\* the request to Supabase timed out, and destroying it raised an error
C27_Witness ==
  /\ Len(req["Supabase"].events) = 2
  /\ req["Supabase"].events[1].type = "timeout"
  /\ req["Supabase"].events[2].type = "error"
  /\ req["Supabase"].promise.status = "TIMEOUT"
  /\ ~req["Supabase"].promise.ok

====
